---- MODULE Spec2Model ----
(***************************************************************************)
(* Model of src/vendas_combustivel.py: the column detection, the cleaning  *)
(* of one chunk and the chunked load loop of run_pipeline_db.              *)
(*                                                                         *)
(* Text is modelled as a sequence of characters (one-character strings);   *)
(* the two non-ASCII characters used are the tokens "a_acute" and          *)
(* "a_tilde", and their combining marks "comb_acute" and "comb_tilde".     *)
(***************************************************************************)
EXTENDS Integers, Sequences, FiniteSets, TLC

(***************************************************************************)
(* Bounds of the model.                                                    *)
(***************************************************************************)
\* most chunks the reader yields in one run
MaxChunks == 3
\* most rows of one chunk (the code's chunksize is 5000)
MaxRows == 2

(***************************************************************************)
(* Python str methods used by the code.                                    *)
(***************************************************************************)
Lowers == <<"a","b","c","d","e","f","g","h","i","j","k","l","m",
            "n","o","p","q","r","s","t","u","v","w","x","y","z">>
Uppers == <<"A","B","C","D","E","F","G","H","I","J","K","L","M",
            "N","O","P","Q","R","S","T","U","V","W","X","Y","Z">>
Digits == <<"0","1","2","3","4","5","6","7","8","9">>
Whitespace == {" ", "\t"}
NonAscii == {"a_acute", "a_tilde", "comb_acute", "comb_tilde"}

Range(s) == {s[j] : j \in DOMAIN s}

Pos(seq, x) == CHOOSE j \in DOMAIN seq : seq[j] = x

\* str.lower(), one character
LowerCh(c) == IF c \in Range(Uppers) THEN Lowers[Pos(Uppers, c)] ELSE c
\* str.upper(), one character
UpperCh(c) == IF c \in Range(Lowers) THEN Uppers[Pos(Lowers, c)] ELSE c

lower(s) == [j \in DOMAIN s |-> LowerCh(s[j])]
upper(s) == [j \in DOMAIN s |-> UpperCh(s[j])]

RECURSIVE lstrip(_)
lstrip(s) == IF s # <<>> /\ Head(s) \in Whitespace THEN lstrip(Tail(s)) ELSE s

RECURSIVE rstrip(_)
rstrip(s) ==
    IF s # <<>> /\ s[Len(s)] \in Whitespace
    THEN rstrip(SubSeq(s, 1, Len(s) - 1)) ELSE s

\* str.strip()
strip(s) == rstrip(lstrip(s))

\* the Python test `sub in s` on two strings
Contains(sub, s) ==
    \E j \in 0..(Len(s) - Len(sub)) : SubSeq(s, j + 1, j + Len(sub)) = sub

RECURSIVE Concat(_)
Concat(ss) == IF ss = <<>> THEN <<>> ELSE Head(ss) \o Concat(Tail(ss))

\* unicodedata NFKD of one character: an accented letter decomposes into
\* the base letter and a combining mark
NfkdCh(c) ==
    CASE c = "a_acute" -> <<"a", "comb_acute">>
      [] c = "a_tilde" -> <<"a", "comb_tilde">>
      [] OTHER -> <<c>>

\* .str.normalize("NFKD")
normalize(s) == Concat([j \in DOMAIN s |-> NfkdCh(s[j])])

\* .str.encode("ascii", errors="ignore").str.decode("utf-8")
EncodeAsciiIgnore(s) == SelectSeq(s, LAMBDA c : c \notin NonAscii)

(***************************************************************************)
(* detectar_colunas: the keywords, as the character sequences of the       *)
(* string literals of the code.                                            *)
(***************************************************************************)
K_regiao == <<"r","e","g","i","a","o">>
K_estado_sigla == <<"e","s","t","a","d","o"," ","-"," ","s","i","g","l","a">>
K_uf == <<"u","f">>
K_estado == <<"e","s","t","a","d","o">>
K_sigla == <<"s","i","g","l","a">>
K_municip == <<"m","u","n","i","c","i","p">>
K_cnpj == <<"c","n","p","j">>
K_revenda == <<"r","e","v","e","n","d","a">>
K_bairro == <<"b","a","i","r","r","o">>
K_produto == <<"p","r","o","d","u","t","o">>
K_data == <<"d","a","t","a">>
K_valor_de_venda == <<"v","a","l","o","r"," ","d","e"," ","v","e","n","d","a">>
K_bandeira == <<"b","a","n","d","e","i","r","a">>

CanonicalFields ==
    {"regiao", "uf", "municipio", "posto_nome", "cnpj", "bairro", "produto",
     "data_coleta", "valor_venda", "bandeira"}

\* the if/elif chain on c = col.lower().strip(); "none" when no branch is taken
Canon(c) ==
    IF Contains(K_regiao, c) THEN "regiao"
    ELSE IF c \in {K_estado_sigla, K_uf, K_estado} \/ Contains(K_sigla, c) THEN "uf"
    ELSE IF Contains(K_municip, c) THEN "municipio"
    ELSE IF Contains(K_cnpj, c) THEN "cnpj"
    ELSE IF Contains(K_revenda, c) THEN "posto_nome"
    ELSE IF Contains(K_bairro, c) THEN "bairro"
    ELSE IF Contains(K_produto, c) THEN "produto"
    ELSE IF Contains(K_data, c) THEN "data_coleta"
    ELSE IF Contains(K_valor_de_venda, c) THEN "valor_venda"
    ELSE IF Contains(K_bandeira, c) THEN "bandeira"
    ELSE "none"

\* the dict colmap as the sequence of its items <<col, field>>, in insertion
\* order; the columns of a DataFrame read by read_csv are pairwise different,
\* so every key occurs once
detectar_colunas(columns) ==
    SelectSeq([j \in DOMAIN columns |-> <<columns[j], Canon(strip(lower(columns[j])))>>],
              LAMBDA p : p[2] # "none")

(***************************************************************************)
(* Cell values.  A cell read by read_csv is a string or NaN (an empty      *)
(* cell).  A parsed price is the exact decimal m / 10^e with trailing      *)
(* zeros removed, so that equal numbers have equal representations.        *)
(***************************************************************************)
NaN == [k |-> "nan"]
NaT == [k |-> "nat"]
Str(s) == [k |-> "str", s |-> s]
Num(m, e) == [k |-> "num", m |-> m, e |-> e]
Date(y, m, d) == [k |-> "date", y |-> y, m |-> m, d |-> d]

\* pandas isna()
IsNull(v) == v.k \in {"nan", "nat"}

\* Series.astype(str): NaN becomes the string "nan"
astype_str(v) == IF v.k = "str" THEN v.s ELSE <<"n","a","n">>

IsDigit(c) == c \in Range(Digits)
DigitVal(c) == Pos(Digits, c) - 1

RECURSIVE DigitsVal(_)
DigitsVal(s) ==
    IF s = <<>> THEN 0
    ELSE DigitsVal(SubSeq(s, 1, Len(s) - 1)) * 10 + DigitVal(s[Len(s)])

RECURSIVE Pow10(_)
Pow10(n) == IF n = 0 THEN 1 ELSE 10 * Pow10(n - 1)

RECURSIVE Reduce(_, _)
Reduce(m, e) ==
    IF e > 0 /\ m % 10 = 0 THEN Reduce(m \div 10, e - 1) ELSE Num(m, e)

AllDigits(s) == \A j \in DOMAIN s : IsDigit(s[j])

\* .str.replace(",", ".", regex=False)
ReplaceComma(s) == [j \in DOMAIN s |-> IF s[j] = "," THEN "." ELSE s[j]]

\* pd.to_numeric(errors="coerce") on one string in plain decimal notation
\* (optional sign, digits, optional point and digits); anything else is NaN
to_numeric(s) ==
    LET t == strip(s)
        neg == t # <<>> /\ Head(t) = "-"
        u == IF t # <<>> /\ Head(t) \in {"-", "+"} THEN Tail(t) ELSE t
        dots == {j \in DOMAIN u : u[j] = "."}
        dot == IF dots = {} THEN Len(u) + 1 ELSE CHOOSE j \in dots : \A l \in dots : j <= l
        ip == SubSeq(u, 1, dot - 1)
        fp == SubSeq(u, dot + 1, Len(u))
    IN  IF AllDigits(ip) /\ AllDigits(fp) /\ Len(ip) + Len(fp) > 0
        THEN Reduce((IF neg THEN -1 ELSE 1) * DigitsVal(ip \o fp), Len(fp))
        ELSE NaN

\* the comparison of a parsed price with the float literal 0.01
GreaterThanCent(v) == v.k = "num" /\ v.m * 100 > Pow10(v.e)

IsLeap(y) == (y % 4 = 0 /\ y % 100 # 0) \/ y % 400 = 0

DaysIn(m, y) ==
    IF m = 2 THEN (IF IsLeap(y) THEN 29 ELSE 28)
    ELSE IF m \in {4, 6, 9, 11} THEN 30 ELSE 31

\* pd.to_datetime(errors="coerce", dayfirst=True) on one cell written
\* dd/mm/yyyy; a cell that is no calendar date in that form is NaT
to_datetime(v) ==
    IF v.k # "str" THEN NaT
    ELSE LET s == v.s IN
         IF Len(s) = 10 /\ s[3] = "/" /\ s[6] = "/"
            /\ AllDigits(SubSeq(s, 1, 2)) /\ AllDigits(SubSeq(s, 4, 5))
            /\ AllDigits(SubSeq(s, 7, 10))
         THEN LET d == DigitsVal(SubSeq(s, 1, 2))
                  m == DigitsVal(SubSeq(s, 4, 5))
                  y == DigitsVal(SubSeq(s, 7, 10))
              IN  IF y >= 1 /\ m \in 1..12 /\ d \in 1..DaysIn(m, y)
                  THEN Date(y, m, d) ELSE NaT
         ELSE NaT

\* the chain astype(str) / normalize / encode / decode / strip / upper
NormText(v) == Str(upper(strip(EncodeAsciiIgnore(normalize(astype_str(v))))))

\* astype(str), comma to point, to_numeric
NormValor(v) == to_numeric(ReplaceComma(astype_str(v)))

\* astype(str).str.replace(r"\D", "", regex=True)
NormCnpj(v) == Str(SelectSeq(astype_str(v), IsDigit))

texto_cols == {"regiao", "uf", "municipio", "posto_nome", "bairro", "bandeira", "produto"}

criticas == {"valor_venda", "produto", "data_coleta"}

\* what lines 88-109 do to one cell of column col
NormCell(col, v) ==
    IF col \in texto_cols THEN NormText(v)
    ELSE IF col = "valor_venda" THEN NormValor(v)
    ELSE IF col = "data_coleta" THEN to_datetime(v)
    ELSE IF col = "cnpj" THEN NormCnpj(v)
    ELSE v

(***************************************************************************)
(* DataFrames: the column labels and the rows, each row with its index     *)
(* label idx (kept by the filters) and its cells v, a function of the      *)
(* column label.                                                           *)
(***************************************************************************)
\* pd.DataFrame()
EmptyFrame == [cols |-> <<>>, rows |-> <<>>]

\* DataFrame.empty: some axis has length 0
IsEmpty(df) == df.cols = <<>> \/ df.rows = <<>>

\* df_chunk[list(colmap.keys())].rename(columns=colmap), for a colmap with
\* pairwise different values
Renamed(df, colmap) ==
    LET raw(c) == (CHOOSE j \in DOMAIN colmap : colmap[j][2] = c)
        fields == {colmap[j][2] : j \in DOMAIN colmap}
    IN  [cols |-> [j \in DOMAIN colmap |-> colmap[j][2]],
         rows |-> [r \in DOMAIN df.rows |->
                     [idx |-> df.rows[r].idx,
                      v |-> [c \in fields |-> df.rows[r].v[colmap[raw(c)][1]]]]]]

\* two keys of colmap renamed to one field: the frame then has two columns
\* of that label, df[label] is a DataFrame, and the step of lines 88-109
\* that handles the label raises (every field is handled by one of them)
HasDuplicateColumns(colmap) ==
    \E a, b \in DOMAIN colmap : a # b /\ colmap[a][2] = colmap[b][2]

\* lines 88-109 on the whole frame
Transform(df) ==
    [cols |-> df.cols,
     rows |-> [r \in DOMAIN df.rows |->
                 [idx |-> df.rows[r].idx,
                  v |-> [c \in DOMAIN df.rows[r].v |-> NormCell(c, df.rows[r].v[c])]]]]

\* df.dropna(subset=criticas) raises KeyError when a label of criticas is
\* no column of df
DropnaRaises(df) == ~(criticas \subseteq Range(df.cols))

\* df.dropna(subset=criticas, inplace=True), all labels present
dropna(df) ==
    [cols |-> df.cols,
     rows |-> SelectSeq(df.rows, LAMBDA r : \A c \in criticas : ~IsNull(r.v[c]))]

\* df[df["valor_venda"] > 0.01]
FilterValor(df) ==
    [cols |-> df.cols,
     rows |-> SelectSeq(df.rows, LAMBDA r : GreaterThanCent(r.v["valor_venda"]))]

RECURSIVE KeepFirst(_, _)
KeepFirst(rows, seen) ==
    IF rows = <<>> THEN <<>>
    ELSE IF Head(rows).v \in seen THEN KeepFirst(Tail(rows), seen)
    ELSE <<Head(rows)>> \o KeepFirst(Tail(rows), seen \cup {Head(rows).v})

\* drop_duplicates left out: every row is kept
drop_duplicates_Nothing(df) == df

\* df.drop_duplicates(inplace=True): rows are compared on their cells, the
\* first of equal rows is kept
drop_duplicates(df) == [cols |-> df.cols, rows |-> KeepFirst(df.rows, {})]

Returned(df) == [raised |-> FALSE, df |-> df]
Raised == [raised |-> TRUE, df |-> EmptyFrame]

\* clean_and_transform raising when no label holds a keyword, instead of
\* returning an empty frame
clean_and_transform_NoColumnsRaises(df_chunk) ==
    IF IsEmpty(df_chunk) THEN Returned(df_chunk)
    ELSE LET colmap == detectar_colunas(df_chunk.cols) IN
         IF colmap = <<>> \/ HasDuplicateColumns(colmap) THEN Raised
         ELSE LET df == Transform(Renamed(df_chunk, colmap)) IN
              IF DropnaRaises(df) THEN Raised
              ELSE Returned(drop_duplicates(FilterValor(dropna(df))))

\* clean_and_transform returning an empty frame when a label of criticas
\* is no column, instead of raising
clean_and_transform_SkipsIncomplete(df_chunk) ==
    IF IsEmpty(df_chunk) THEN Returned(df_chunk)
    ELSE LET colmap == detectar_colunas(df_chunk.cols) IN
         IF colmap = <<>> THEN Returned(EmptyFrame)
         ELSE IF HasDuplicateColumns(colmap) THEN Raised
         ELSE LET df == Transform(Renamed(df_chunk, colmap)) IN
              IF DropnaRaises(df) THEN Returned(EmptyFrame)
              ELSE Returned(drop_duplicates(FilterValor(dropna(df))))

\* clean_and_transform(df_chunk): the frame it returns, or that it raises
clean_and_transform(df_chunk) ==
    IF IsEmpty(df_chunk) THEN Returned(df_chunk)
    ELSE LET colmap == detectar_colunas(df_chunk.cols) IN
         IF colmap = <<>> THEN Returned(EmptyFrame)
         ELSE IF HasDuplicateColumns(colmap) THEN Raised
         ELSE LET df == Transform(Renamed(df_chunk, colmap)) IN
              IF DropnaRaises(df) THEN Raised
              ELSE Returned(drop_duplicates(FilterValor(dropna(df))))

(***************************************************************************)
(* The inputs: the header rows of the staged file and the rows it holds.   *)
(***************************************************************************)
H_Regiao == <<"R","e","g","i","a","o"," ","-"," ","S","i","g","l","a">>
H_RegiaoTil == <<"R","e","g","i","a_tilde","o"," ","-"," ","S","i","g","l","a">>
H_Estado == <<"E","s","t","a","d","o"," ","-"," ","S","i","g","l","a">>
H_UF == <<" ","U","F"," ">>
H_Municipio == <<"M","u","n","i","c","i","p","i","o">>
H_Produto == <<"P","r","o","d","u","t","o">>
H_Data == <<"D","a","t","a"," ","d","a"," ","C","o","l","e","t","a">>
H_DataCadastro == <<"D","a","t","a"," ","d","e"," ","C","a","d","a","s","t","r","o">>
H_Valor == <<"V","a","l","o","r"," ","d","e"," ","V","e","n","d","a">>
H_ValorCompra == <<"V","a","l","o","r"," ","d","e"," ","C","o","m","p","r","a">>
H_Cep == <<"C","e","p">>

\* labels of the published file, one of them padded and upper-case, one
\* without keyword
HdrGood == <<H_Regiao, H_UF, H_Municipio, H_Produto, H_Data, H_Valor, H_ValorCompra>>
\* no label holds a keyword
HdrNone == <<H_Cep, H_ValorCompra>>
\* the price column is absent
HdrNoValor == <<H_Produto, H_Data>>
\* the date column is absent
HdrNoData == <<H_Municipio, H_Produto, H_Valor>>
\* two labels hold "sigla" and neither holds "regiao"
HdrTwoSigla == <<H_RegiaoTil, H_Estado, H_Produto, H_Data, H_Valor>>
\* two labels hold "data"
HdrTwoData == <<H_Produto, H_Data, H_DataCadastro, H_Valor>>

Headers == {HdrGood, HdrNone, HdrNoValor, HdrNoData, HdrTwoSigla, HdrTwoData}

S_Gasolina == <<"G","a","s","o","l","i","n","a">>
S_GASOLINA_sp == <<"G","A","S","O","L","I","N","A"," ">>
S_Etanol == <<"E","t","a","n","o","l">>
S_d0503 == <<"0","5","/","0","3","/","2","0","2","4">>
S_d3102 == <<"3","1","/","0","2","/","2","0","2","4">>
S_d2512 == <<"2","5","/","1","2","/","2","0","2","3">>
S_529 == <<"5",",","2","9">>
S_5290 == <<"5",",","2","9","0">>
S_000 == <<"0",",","0","0">>
S_001 == <<"0",",","0","1">>
S_3459 == <<"3",",","4","5","9">>
S_abc == <<"a","b","c">>
S_NE == <<"N","E">>
S_al == <<"a","l">>
S_SaoPaulo == <<" ","S","a_tilde","o"," ","P","a","u","l","o">>
S_cep == <<"5","7","0","0","0","-","0","0","0">>
S_480 == <<"4",",","8","0">>

\* the source rows: the cells of the product, date and price columns
RowKinds ==
    << [produto |-> Str(S_Gasolina),    data |-> Str(S_d0503), valor |-> Str(S_529)],
       [produto |-> Str(S_GASOLINA_sp), data |-> Str(S_d0503), valor |-> Str(S_5290)],
       [produto |-> NaN,                data |-> Str(S_d0503), valor |-> Str(S_529)],
       [produto |-> Str(S_Gasolina),    data |-> Str(S_d0503), valor |-> Str(S_000)],
       [produto |-> Str(S_Etanol),      data |-> Str(S_d2512), valor |-> Str(S_001)],
       [produto |-> Str(S_Etanol),      data |-> Str(S_d3102), valor |-> Str(S_3459)],
       [produto |-> Str(S_Etanol),      data |-> NaN,          valor |-> Str(S_abc)] >>

\* the cell of a source row under the column labelled col
RawCell(col, kind) ==
    IF col = H_Produto THEN kind.produto
    ELSE IF col \in {H_Data, H_DataCadastro} THEN kind.data
    ELSE IF col = H_Valor THEN kind.valor
    ELSE IF col = H_ValorCompra THEN Str(S_480)
    ELSE IF col \in {H_Regiao, H_RegiaoTil} THEN Str(S_NE)
    ELSE IF col \in {H_Estado, H_UF} THEN Str(S_al)
    ELSE IF col = H_Municipio THEN Str(S_SaoPaulo)
    ELSE Str(S_cep)

\* the sequences of at most n source rows, each row named by its place in
\* RowKinds
RECURSIVE KindSeqs(_)
KindSeqs(n) ==
    IF n = 0 THEN {<<>>}
    ELSE LET shorter == KindSeqs(n - 1)
         IN  shorter \cup {Append(q, kd) : q \in {x \in shorter : Len(x) = n - 1},
                                            kd \in DOMAIN RowKinds}

\* the rows of the chunks of the inputs
RowSeqs == KindSeqs(MaxRows)

\* the chunk read_csv yields for the rows kinds under the header hdr
Chunk(hdr, kinds) ==
    [cols |-> hdr,
     rows |-> [r \in DOMAIN kinds |->
                 [idx |-> r,
                  v |-> [c \in Range(hdr) |-> RawCell(c, RowKinds[kinds[r]])]]]]

\* df_limpo = clean_and_transform(chunk), for every chunk of the inputs
\* (@@ <<>> leaves the function as it is and has TLC tabulate it once)
Limpo ==
    [hdr \in Headers |->
        [kinds \in RowSeqs |-> clean_and_transform(Chunk(hdr, kinds))] @@ <<>>]
    @@ <<>>

(***************************************************************************)
(* The destination table and DataFrame.to_sql.                             *)
(***************************************************************************)
\* the rows to_sql writes: the cells without the index (index=False)
Values(df) == [r \in DOMAIN df.rows |-> df.rows[r].v]

NoTable == [exists |-> FALSE, rows |-> <<>>]

\* a row loaded by an earlier run
OldRow ==
    [c \in criticas |->
        IF c = "produto" THEN Str(<<"D","I","E","S","E","L">>)
        ELSE IF c = "data_coleta" THEN Date(2023, 1, 2)
        ELSE Num(6, 0)]

OldTable == [exists |-> TRUE, rows |-> <<OldRow>>]

\* to_sql appending whatever the mode
to_sql_KeepsOldRows(tbl, df, mode) ==
    [exists |-> TRUE, rows |-> tbl.rows \o Values(df)]

\* the table after df.to_sql(TABELA_DESTINO, if_exists=mode) has succeeded
to_sql(tbl, df, mode) ==
    IF mode = "replace" THEN [exists |-> TRUE, rows |-> Values(df)]
    ELSE [exists |-> TRUE, rows |-> tbl.rows \o Values(df)]

\* the tables a failed to_sql can leave.  to_sql drops and recreates the
\* table of a "replace" before it inserts, and SQLite runs that DDL outside
\* the transaction of the insert: a failure before the DROP leaves the
\* table as it was, a failure of the INSERT leaves the new table empty.  An
\* "append" is one insert in one transaction, rolled back on failure.
to_sql_failed(tbl, mode) ==
    IF mode = "replace" THEN {tbl, [exists |-> TRUE, rows |-> <<>>]} ELSE {tbl}

\* modo left at "replace" after a write
ModoAfterWrite_Replace == "replace"

\* modo after a successful write (line 157)
ModoAfterWrite == "append"

\* total after a successful write (line 158)
TotalAfterWrite(t, df) == t + Len(df.rows)

\* total counted before the write
TotalAfterFailedWrite_Counts(t, df) == t + Len(df.rows)

\* total after to_sql has raised: line 158 is not reached
TotalAfterFailedWrite(t, df) == t

(***************************************************************************)
(* run_pipeline_db as a state machine.  One iteration of the loop of line  *)
(* 140 is two steps: the reader yields a chunk (pc goes from STREAMING to  *)
(* BODY), then the body of the loop runs on it to its end.                 *)
(***************************************************************************)
VARIABLES
    pc,         \* IDLE, ACQUIRING, STREAMING, BODY, CLEANUP, RETURNED or RAISED
    header,     \* the header row of the staged file
    onlyHeader, \* the staged file holds its header row and no other line
    fileExists, \* os.path.exists(PLACEHOLDER)
    table,      \* the destination table in the store
    i,          \* the chunks the reader has yielded
    chunk,      \* <<the rows of the chunk the body is running on>>, or <<>>
    total,      \* the local total
    modo,       \* the local modo
    result,     \* what the call gave its caller: pending, True, False, exception
    reported,   \* the totals logged by line 161
    cause,      \* which step raised: none, engine, acquire, read, clean, write
    cleanup,    \* what the finally block did: none, absent, removed, remove_failed
    initTable,  \* history: the table when the run began
    writes,     \* history: the modes of the writes that succeeded
    cleaned     \* history: the cleaned batches handled without error

vars == <<pc, header, onlyHeader, fileExists, table, i, chunk, total, modo, result,
          reported, cause, cleanup, initTable, writes, cleaned>>

Init ==
    /\ pc = "IDLE"
    /\ header \in Headers
    /\ onlyHeader \in BOOLEAN
    /\ fileExists \in BOOLEAN
    /\ table \in {NoTable, OldTable}
    /\ initTable = table
    /\ i = 0
    /\ chunk = <<>>
    /\ total = 0
    /\ modo = "replace"
    /\ result = "pending"
    /\ reported = <<>>
    /\ cause = "none"
    /\ cleanup = "none"
    /\ writes = <<>>
    /\ cleaned = <<>>

\* line 125: get_db_engine() returns
GetEngine ==
    /\ pc = "IDLE"
    /\ pc' = "ACQUIRING"
    /\ UNCHANGED <<header, onlyHeader, fileExists, table, i, chunk, total, modo,
                   result, reported, cause, cleanup, initTable, writes, cleaned>>

\* line 125: create_engine / engine.connect() / the PRAGMAs raise.  The call
\* is outside the try statement: the exception leaves run_pipeline_db.
GetEngineRaises ==
    /\ pc = "IDLE"
    /\ pc' = "RAISED"
    /\ result' = "exception"
    /\ cause' = "engine"
    /\ UNCHANGED <<header, onlyHeader, fileExists, table, i, chunk, total, modo,
                   reported, cleanup, initTable, writes, cleaned>>

\* lines 129-138: read_csv opens the staged file and reads its header
OpenFile ==
    /\ pc = "ACQUIRING"
    /\ fileExists
    /\ pc' = "STREAMING"
    /\ total' = 0
    /\ modo' = "replace"
    /\ UNCHANGED <<header, onlyHeader, fileExists, table, i, chunk, result,
                   reported, cause, cleanup, initTable, writes, cleaned>>

\* an exception inside the try statement: lines 164-166
Except(why) ==
    /\ pc' = "CLEANUP"
    /\ result' = "False"
    /\ cause' = why

\* lines 129-135: read_csv raises (the file is missing or unreadable)
OpenFileRaises ==
    /\ pc = "ACQUIRING"
    /\ Except("acquire")
    /\ UNCHANGED <<header, onlyHeader, fileExists, table, i, chunk, total, modo,
                   reported, cleanup, initTable, writes, cleaned>>

\* line 140: the reader yields a chunk, of the rows kinds.  A chunk without
\* rows is yielded only, and once, for a file that holds nothing but its
\* header.
Yield ==
    /\ pc = "STREAMING"
    /\ i < MaxChunks
    /\ \E kinds \in RowSeqs :
         /\ IF onlyHeader THEN kinds = <<>> /\ i = 0 ELSE kinds # <<>>
         /\ chunk' = <<kinds>>
    /\ pc' = "BODY"
    /\ i' = i + 1
    /\ UNCHANGED <<header, onlyHeader, fileExists, table, total, modo, result,
                   reported, cause, cleanup, initTable, writes, cleaned>>

\* line 140: the reader raises while it reads the next chunk
ReadRaises ==
    /\ pc = "STREAMING"
    /\ Except("read")
    /\ UNCHANGED <<header, onlyHeader, fileExists, table, i, chunk, total, modo,
                   reported, cleanup, initTable, writes, cleaned>>

\* the chunk the body runs on, and what line 143 makes of it
CurChunk == Chunk(header, chunk[1])
CurLimpo == Limpo[header][chunk[1]]

\* colmap = detectar_colunas(df_chunk) of line 80, for the header of the file
Colmaps == [hdr \in Headers |-> detectar_colunas(hdr)] @@ <<>>
CurColmap == Colmaps[header]

\* line 143: clean_and_transform raises
ChunkCleanRaises ==
    /\ pc = "BODY"
    /\ CurLimpo.raised
    /\ chunk' = <<>>
    /\ Except("clean")
    /\ UNCHANGED <<header, onlyHeader, fileExists, table, i, total, modo,
                   reported, cleanup, initTable, writes, cleaned>>

\* lines 143-147: the cleaned frame is empty, continue
ChunkEmpty ==
    /\ pc = "BODY"
    /\ ~CurLimpo.raised
    /\ IsEmpty(CurLimpo.df)
    /\ chunk' = <<>>
    /\ pc' = "STREAMING"
    /\ cleaned' = Append(cleaned, <<>>)
    /\ UNCHANGED <<header, onlyHeader, fileExists, table, i, total, modo,
                   result, reported, cause, cleanup, initTable, writes>>

\* lines 143-159: the cleaned frame is written
ChunkWritten ==
    /\ pc = "BODY"
    /\ ~CurLimpo.raised
    /\ ~IsEmpty(CurLimpo.df)
    /\ chunk' = <<>>
    /\ pc' = "STREAMING"
    /\ table' = to_sql(table, CurLimpo.df, modo)
    /\ modo' = ModoAfterWrite
    /\ total' = TotalAfterWrite(total, CurLimpo.df)
    /\ writes' = Append(writes, modo)
    /\ cleaned' = Append(cleaned, Values(CurLimpo.df))
    /\ UNCHANGED <<header, onlyHeader, fileExists, i, result, reported, cause,
                   cleanup, initTable>>

\* lines 143-155 and 164-166: to_sql raises
ChunkWriteRaises ==
    /\ pc = "BODY"
    /\ ~CurLimpo.raised
    /\ ~IsEmpty(CurLimpo.df)
    /\ chunk' = <<>>
    /\ table' \in to_sql_failed(table, modo)
    /\ total' = TotalAfterFailedWrite(total, CurLimpo.df)
    /\ Except("write")
    /\ UNCHANGED <<header, onlyHeader, fileExists, i, modo, reported, cleanup,
                   initTable, writes, cleaned>>

\* lines 161-162: the reader is exhausted
EndOfFile ==
    /\ pc = "STREAMING"
    /\ i > 0
    /\ reported' = Append(reported, total)
    /\ result' = "True"
    /\ pc' = "CLEANUP"
    /\ UNCHANGED <<header, onlyHeader, fileExists, table, i, chunk, total, modo,
                   cause, cleanup, initTable, writes, cleaned>>

\* lines 168-172: the staged file exists and os.remove deletes it
CleanupRemoves ==
    /\ pc = "CLEANUP"
    /\ fileExists
    /\ fileExists' = FALSE
    /\ cleanup' = "removed"
    /\ pc' = "RETURNED"
    /\ UNCHANGED <<header, onlyHeader, table, i, chunk, total, modo, result,
                   reported, cause, initTable, writes, cleaned>>

\* lines 168-174: os.remove raises, the error is logged
CleanupRemoveRaises ==
    /\ pc = "CLEANUP"
    /\ fileExists
    /\ cleanup' = "remove_failed"
    /\ pc' = "RETURNED"
    /\ UNCHANGED <<header, onlyHeader, fileExists, table, i, chunk, total, modo,
                   result, reported, cause, initTable, writes, cleaned>>

\* lines 168-169: there is no staged file
CleanupNothing ==
    /\ pc = "CLEANUP"
    /\ ~fileExists
    /\ cleanup' = "absent"
    /\ pc' = "RETURNED"
    /\ UNCHANGED <<header, onlyHeader, fileExists, table, i, chunk, total, modo,
                   result, reported, cause, initTable, writes, cleaned>>

Next ==
    \/ GetEngine
    \/ GetEngineRaises
    \/ OpenFile
    \/ OpenFileRaises
    \/ Yield
    \/ ReadRaises
    \/ ChunkCleanRaises
    \/ ChunkEmpty
    \/ ChunkWritten
    \/ ChunkWriteRaises
    \/ EndOfFile
    \/ CleanupRemoves
    \/ CleanupRemoveRaises
    \/ CleanupNothing

Spec == Init /\ [][Next]_vars

(***************************************************************************)
(* Properties.                                                             *)
(***************************************************************************)
Terminal == pc \in {"RETURNED", "RAISED"}

\* the body of the loop is running on a chunk that has rows
InBody == pc = "BODY" /\ chunk[1] # <<>>

RECURSIVE Count(_, _)
Count(x, seq) ==
    IF seq = <<>> THEN 0
    ELSE (IF Head(seq) = x THEN 1 ELSE 0) + Count(x, Tail(seq))

NoDuplicates(seq) == \A a, b \in DOMAIN seq : a # b => seq[a] # seq[b]

FieldsOf(colmap) == {colmap[j][2] : j \in DOMAIN colmap}

\* the modes of the writes that succeeded so far, and modo
C1_WritesShape ==
    /\ writes # <<>> => writes[1] = "replace"
    /\ \A j \in 2..Len(writes) : writes[j] = "append"
    /\ modo \in {"replace", "append"}
    /\ modo = "replace" <=> writes = <<>>

\* one step: how modo, the writes and the table change
C1_ModoStep ==
    /\ modo' # modo =>
         modo = "replace" /\ modo' = "append" /\ writes' = Append(writes, "replace")
    /\ writes' # writes =>
         /\ writes' = Append(writes, modo)
         /\ ~CurLimpo.raised
         /\ table' = to_sql(table, CurLimpo.df, modo)
    /\ table' # table => pc = "BODY"

\* C1: the first write that succeeds in a run is a "replace" and every later
\* one an "append"; modo is "replace" exactly as long as no write has
\* succeeded (chunks that are empty after cleaning do not change it), it
\* changes only in a step in which a write succeeds, and never back; the
\* table changes only in the body of the loop.
C1_ReplaceThenAppend == [](C1_WritesShape) /\ [][C1_ModoStep]_vars

\* C1 witness: the first chunk was empty after cleaning, the second was
\* written with "replace", the third with "append"
C1_Witness ==
    /\ Len(cleaned) = 3
    /\ cleaned[1] = <<>>
    /\ writes = <<"replace", "append">>
    /\ modo = "append"

\* total and the table while the loop runs and after a normal end
C2_TableIsTheRun ==
    (pc \in {"STREAMING", "BODY"} \/ result = "True") =>
        /\ total = Len(Concat(cleaned))
        /\ writes = <<>> => table = initTable /\ total = 0
        /\ writes # <<>> =>
             /\ table = [exists |-> TRUE, rows |-> Concat(cleaned)]
             /\ Len(table.rows) = total
             /\ OldRow \notin Range(table.rows)

\* one step of the body: the batch it adds, and a batch that is empty
C2_Step ==
    /\ (pc = "BODY" /\ pc' = "STREAMING") =>
          cleaned' = Append(cleaned, Values(CurLimpo.df))
    /\ (pc = "BODY" /\ ~CurLimpo.raised /\ IsEmpty(CurLimpo.df)) =>
          table' = table /\ total' = total /\ pc' = "STREAMING" /\ result' = "pending"

\* C2: while the loop runs and after a normal end, total is the number of
\* rows of the cleaned batches handled so far, and once a write has
\* succeeded the table holds exactly those rows, in file order, and no row
\* of before the run; a chunk that is empty after cleaning changes neither
\* the table nor total and the loop goes on; every iteration that ends
\* normally adds the frame clean_and_transform returned to the batches.
C2_RunTotalAndTable == [](C2_TableIsTheRun) /\ [][C2_Step]_vars

\* C2 witness: a run over an old table ended normally after two writes and
\* one chunk that was empty after cleaning
C2_Witness ==
    /\ pc = "RETURNED"
    /\ result = "True"
    /\ initTable = OldTable
    /\ Len(writes) = 2
    /\ \E j \in DOMAIN cleaned : cleaned[j] = <<>>
    /\ reported = <<total>>

C3_AfterFailedWrite ==
    cause = "write" =>
        /\ pc \in {"CLEANUP", "RETURNED"}
        /\ result = "False"
        /\ chunk = <<>>
        /\ total = Len(Concat(cleaned))
        /\ writes # <<>> => table = [exists |-> TRUE, rows |-> Concat(cleaned)]
        /\ reported = <<>>

\* one step once a write has raised
C3_FailedWriteStep ==
    cause = "write" =>
        i' = i /\ table' = table /\ total' = total /\ cleaned' = cleaned /\ chunk' = chunk

C4_CleanupOnEveryExit ==
    Terminal =>
        /\ result \in {"True", "False"}
        /\ cleanup \in {"absent", "removed", "remove_failed"}
        /\ fileExists => cleanup = "remove_failed"

\* the cell of source row idx of the chunk under the column that
\* detectar_colunas maps to field
SourceCell(field, idx) ==
    LET colmap == CurColmap
        j == CHOOSE l \in DOMAIN colmap : colmap[l][2] = field
    IN  CurChunk.rows[idx].v[colmap[j][1]]

\* C5 as stated: every record clean_and_transform emits has a price above
\* 0.01, a product and a parsed date, and comes from a source row whose
\* product, date and price cells are not empty.
C5_CriticalFieldsPresent ==
    (InBody /\ ~CurLimpo.raised) =>
        \A j \in DOMAIN CurLimpo.df.rows :
            LET r == CurLimpo.df.rows[j] IN
            /\ GreaterThanCent(r.v["valor_venda"])
            /\ ~IsNull(r.v["produto"])
            /\ r.v["data_coleta"].k = "date"
            /\ \A f \in criticas : SourceCell(f, r.idx) # NaN

\* C6 as stated: after a run that ends without a write that succeeded, a
\* table that existed when the run began is there with the rows it had.
C6_ZeroCommitsLeaveTable ==
    (Terminal /\ writes = <<>> /\ initTable.exists) => table = initTable

\* one step of the body on a chunk none of whose labels holds a keyword
C7_Step ==
    (InBody /\ CurColmap = <<>>) =>
        /\ pc' = "STREAMING"
        /\ table' = table
        /\ total' = total
        /\ modo' = modo
        /\ writes' = writes
        /\ result' = "pending"
        /\ cause' = "none"

\* C7: when no label of a chunk that has rows holds a keyword, the body of
\* the loop writes nothing, leaves total and modo as they are, raises no
\* error and goes on to the next chunk.
C7_NoColumnsSkipsChunk == [][C7_Step]_vars

\* C7 witness: a run over a file without any keyword in its header handled
\* two chunks that have rows and ended normally with the table untouched
C7_Witness ==
    /\ header = HdrNone
    /\ ~onlyHeader
    /\ i = 2
    /\ pc = "RETURNED"
    /\ result = "True"
    /\ table = initTable
    /\ reported = <<0>>

\* C8 as stated: the fields of the mapping detectar_colunas returns are
\* canonical fields, and no field is the image of two labels.
C8_OneLabelPerField ==
    InBody =>
        LET colmap == CurColmap IN
        /\ FieldsOf(colmap) \subseteq CanonicalFields
        /\ \A a, b \in DOMAIN colmap : a # b => colmap[a][2] # colmap[b][2]

\* C9: no two records of a frame clean_and_transform returns are equal, and
\* the table holds a record as many times as there are written batches of
\* the run that hold it: a record of two batches is in the table twice.
C9_DedupWithinBatchOnly ==
    /\ (InBody /\ ~CurLimpo.raised) => NoDuplicates(Values(CurLimpo.df))
    /\ \A b \in DOMAIN cleaned : NoDuplicates(cleaned[b])
    /\ writes # <<>> =>
         \A x \in Range(table.rows) :
             Count(x, table.rows) = Cardinality({b \in DOMAIN cleaned : x \in Range(cleaned[b])})

\* C9 witness: two chunks were written and the table holds twice the one
\* record each of them cleaned to
C9_Witness ==
    /\ writes = <<"replace", "append">>
    /\ Len(table.rows) = 2
    /\ table.rows[1] = table.rows[2]
    /\ total = 2

\* the labels of the chunk give some field, but not all of criticas
MissingCritical ==
    CurColmap # <<>> /\ ~(criticas \subseteq FieldsOf(CurColmap))

\* clean_and_transform raises on such a chunk
C10_Raises == (InBody /\ MissingCritical) => CurLimpo.raised

\* one step of the body on such a chunk, and one step after it
C10_Step ==
    /\ (InBody /\ MissingCritical) =>
         /\ pc' = "CLEANUP"
         /\ result' = "False"
         /\ cause' = "clean"
         /\ table' = table
         /\ writes' = writes
         /\ cleaned' = cleaned
    /\ cause = "clean" => i' = i /\ table' = table /\ chunk' = chunk /\ result' = "False"

\* C10: when the labels of a chunk that has rows give some field but not
\* all of valor_venda, produto and data_coleta, clean_and_transform raises
\* and the run fails at that chunk: nothing is written for it, no later
\* chunk is handled, and what was written before stays in the table.
C10_MissingCriticalFailsRun == [](C10_Raises) /\ [][C10_Step]_vars

\* C10 witness: a run over a file without date column has returned False
\* from its first chunk
C10_Witness ==
    /\ header = HdrNoData
    /\ ~onlyHeader
    /\ cause = "clean"
    /\ pc = "RETURNED"
    /\ result = "False"
    /\ i = 1
    /\ table = initTable

====
